---- MODULE Spec2Model ----
(***************************************************************************)
(* Model of the assistant bot: the validated fields, Record, AddressBook   *)
(* (src/address_book.py), the command handlers (src/handlers.py) and the   *)
(* command loop (src/main.py).                                             *)
(*                                                                         *)
(* A Python call either returns or raises.  Every modelled call yields a   *)
(* record whose field exc is "None" when the call returned and the name of *)
(* the exception class when it raised.                                     *)
(*                                                                         *)
(* Strings that the code inspects character by character (phone numbers,   *)
(* birthdays) are sequences of one-character strings.  The character       *)
(* written "sup2" stands for U+00B2 SUPERSCRIPT TWO: str.isdigit() is true *)
(* of it, str.isdecimal() and the regular expression class \d are not.     *)
(***************************************************************************)
EXTENDS Integers, Sequences, FiniteSets, TLC

VARIABLES
    book,    \* AddressBook.data: contact name -> Record (phones, birthday)
    order,   \* insertion order of the keys of AddressBook.data
    today,   \* datetime.now().date()
    pc,      \* position of main(): "read", "exited" or "crashed"
    out,     \* outcome of the last call / the last printed line
    phones,  \* Record.phones of the single record of SpecRecord
    bday     \* Birthday.value of the single birthday of SpecSched

vars == <<book, order, today, pc, out, phones, bday>>

----------------------------------------------------------------------------
(* Bounds *)

NumYears == 4        \* the clock runs over the years 2024 .. 2023 + NumYears
MaxDaysAhead == 8    \* get_upcoming_birthdays is called with 0 .. MaxDaysAhead
MaxTicks == 2        \* midnights that pass while the command loop runs
MaxArgs == 3         \* argument tokens of an input line

(* Program constants *)

DefaultDaysAhead == 7

----------------------------------------------------------------------------
(* Characters and str.isdigit *)

AsciiDigits == {"0", "1", "2", "3", "4", "5", "6", "7", "8", "9"}

IsDigitChar(c) == c \in AsciiDigits \cup {"sup2"}

IsDecimalChar(c) == c \in AsciiDigits

str_isdigit(s) == Len(s) > 0 /\ \A i \in 1..Len(s) : IsDigitChar(s[i])

DigitVal(c) ==
    CASE c = "0" -> 0 [] c = "1" -> 1 [] c = "2" -> 2 [] c = "3" -> 3
      [] c = "4" -> 4 [] c = "5" -> 5 [] c = "6" -> 6 [] c = "7" -> 7
      [] c = "8" -> 8 [] c = "9" -> 9

Rep(c, n) == [i \in 1..n |-> c]

----------------------------------------------------------------------------
(* datetime.date *)

NoDate == [y |-> 0, m |-> 0, d |-> 0]

MkDate(y, m, d) == [y |-> y, m |-> m, d |-> d]

\* Birthday.is_leap_year
is_leap_year(year) == year % 4 = 0 /\ (year % 100 # 0 \/ year % 400 = 0)

DaysInMonth(y, m) ==
    IF m = 2 THEN (IF is_leap_year(y) THEN 29 ELSE 28)
    ELSE IF m \in {4, 6, 9, 11} THEN 30 ELSE 31

ValidDate(y, m, d) ==
    /\ y \in 1..9999
    /\ m \in 1..12
    /\ d >= 1
    /\ d <= DaysInMonth(y, m)

\* date.replace(year=y, day=d): ValueError when the day does not exist
Replace(dt, y, d) ==
    IF ValidDate(y, dt.m, d)
    THEN [exc |-> "None", val |-> MkDate(y, dt.m, d)]
    ELSE [exc |-> "ValueError", val |-> NoDate]

\* date.__lt__
DateLT(a, b) ==
    \/ a.y < b.y
    \/ a.y = b.y /\ a.m < b.m
    \/ a.y = b.y /\ a.m = b.m /\ a.d < b.d

RECURSIVE DaysBeforeMonth(_, _)
DaysBeforeMonth(y, m) ==
    IF m = 1 THEN 0 ELSE DaysBeforeMonth(y, m - 1) + DaysInMonth(y, m - 1)

\* date.toordinal: 1 is 0001-01-01
ToOrdinal(dt) ==
    LET p == dt.y - 1
    IN  p * 365 + (p \div 4) - (p \div 100) + (p \div 400)
          + DaysBeforeMonth(dt.y, dt.m) + dt.d

\* date.weekday: Monday is 0, Sunday is 6
Weekday(dt) == (ToOrdinal(dt) + 6) % 7

\* (a - b).days
DaysBetween(a, b) == ToOrdinal(a) - ToOrdinal(b)

NextDay(dt) ==
    IF dt.d < DaysInMonth(dt.y, dt.m) THEN MkDate(dt.y, dt.m, dt.d + 1)
    ELSE IF dt.m < 12 THEN MkDate(dt.y, dt.m + 1, 1)
    ELSE MkDate(dt.y + 1, 1, 1)

\* date + timedelta(days=n)
RECURSIVE AddDays(_, _)
AddDays(dt, n) == IF n = 0 THEN dt ELSE AddDays(NextDay(dt), n - 1)

----------------------------------------------------------------------------
(* Birthday *)

\* Birthday.is_29th_february
is_29th_february(value) == value.m = 2 /\ value.d = 29

\* a plausible slip: Sunday is left where it is
WeekendShiftSaturdayOnly(dt) ==
    IF Weekday(dt) = 5 THEN AddDays(dt, 2) ELSE dt

\* the weekend shift of next_congritulation_date
WeekendShift(dt) ==
    IF Weekday(dt) = 5 THEN AddDays(dt, 2)
    ELSE IF Weekday(dt) = 6 THEN AddDays(dt, 1)
    ELSE dt

\* the birthday in today's year (Feb 28 for a Feb 29 birthday in a common year)
ThisYear(value, now) ==
    IF is_29th_february(value) /\ ~is_leap_year(now.y)
    THEN Replace(value, now.y, 28)
    ELSE Replace(value, now.y, value.d)

\* a plausible slip: a birthday that falls today is moved to next year
RollForwardInclusive(value, now, nb) ==
    IF DateLT(nb, now) \/ nb = now
    THEN IF is_29th_february(value) /\ is_leap_year(now.y + 1)
         THEN Replace(value, now.y + 1, 29)
         ELSE Replace(nb, now.y + 1, nb.d)
    ELSE [exc |-> "None", val |-> nb]

\* the move to next year of next_congritulation_date
RollForward(value, now, nb) ==
    IF DateLT(nb, now)
    THEN IF is_29th_february(value) /\ is_leap_year(now.y + 1)
         THEN Replace(value, now.y + 1, 29)
         ELSE Replace(nb, now.y + 1, nb.d)
    ELSE [exc |-> "None", val |-> nb]

\* Birthday.next_congritulation_date, with today = now
next_congritulation_date(value, now) ==
    LET first == ThisYear(value, now)
    IN  IF first.exc # "None" THEN first
        ELSE LET second == RollForward(value, now, first.val)
             IN  IF second.exc # "None" THEN second
                 ELSE [exc |-> "None", val |-> WeekendShift(second.val)]

----------------------------------------------------------------------------
(* Phone and Record *)

\* Phone.__init__
Phone(value) ==
    IF ~str_isdigit(value) \/ Len(value) # 10
    THEN [exc |-> "ValidationError", msg |-> "Invalid phone number", val |-> <<>>]
    ELSE [exc |-> "None", msg |-> "", val |-> value]

Returned(phs) == [exc |-> "None", msg |-> "", phones |-> phs]

Raised(exc, msg, phs) == [exc |-> exc, msg |-> msg, phones |-> phs]

\* Record.add_phone on a record whose phone set is phs
add_phone(phs, phone) ==
    LET p == Phone(phone)
    IN  IF p.exc # "None" THEN Raised(p.exc, p.msg, phs)
        ELSE Returned(phs \cup {p.val})

\* Record.remove_phone: set.remove raises KeyError for an absent element
remove_phone(phs, phone) ==
    LET phone_obj == Phone(phone)
    IN  IF phone_obj.exc # "None" THEN Raised(phone_obj.exc, phone_obj.msg, phs)
        ELSE IF phone_obj.val \notin phs THEN Raised("KeyError", "", phs)
        ELSE Returned(phs \ {phone_obj.val})

\* Record.edit_phone: the new number is added, then the old one is removed
edit_phone(phs, old_phone, new_phone) ==
    LET old_phone_obj == Phone(old_phone)
    IN  IF old_phone_obj.exc # "None"
        THEN Raised(old_phone_obj.exc, old_phone_obj.msg, phs)
        ELSE IF old_phone_obj.val \notin phs
        THEN Raised("ValidationError", "Old phone number not found", phs)
        ELSE LET new_phone_obj == Phone(new_phone)
             IN  IF new_phone_obj.exc # "None"
                 THEN Raised(new_phone_obj.exc, new_phone_obj.msg, phs)
                 ELSE Returned((phs \cup {new_phone_obj.val}) \ {old_phone_obj.val})

----------------------------------------------------------------------------
(* One record and its phone operations: SpecRecord *)

Phone1 == <<"0", "1", "2", "3", "4", "5", "6", "7", "8", "9">>

Phone2 == Rep("5", 10)

Phone3 == <<"0", "9", "9", "1", "2", "3", "4", "5", "6", "7">>

PhoneSup == Rep("sup2", 10)

PhoneShort == Rep("1", 9)

PhoneLong == Rep("1", 11)

PhoneAlpha == Rep("7", 9) \o <<"a">>

PhoneEmpty == <<>>

RawPhones ==
    {Phone1, Phone2, Phone3, PhoneSup, PhoneShort, PhoneLong, PhoneAlpha, PhoneEmpty}

InitRecord ==
    /\ phones = {}
    /\ out = [op |-> "Record", a |-> <<>>, b |-> <<>>, exc |-> "None", msg |-> "",
              before |-> {}]
    /\ book = <<>>
    /\ order = <<>>
    /\ today = NoDate
    /\ pc = "read"
    /\ bday = NoDate

AddPhone ==
    \E raw \in RawPhones :
        LET r == add_phone(phones, raw)
        IN  /\ phones' = r.phones
            /\ out' = [op |-> "add_phone", a |-> raw, b |-> <<>>, exc |-> r.exc,
                       msg |-> r.msg, before |-> phones]
            /\ UNCHANGED <<book, order, today, pc, bday>>

RemovePhone ==
    \E raw \in RawPhones :
        LET r == remove_phone(phones, raw)
        IN  /\ phones' = r.phones
            /\ out' = [op |-> "remove_phone", a |-> raw, b |-> <<>>, exc |-> r.exc,
                       msg |-> r.msg, before |-> phones]
            /\ UNCHANGED <<book, order, today, pc, bday>>

EditPhone ==
    \E old \in RawPhones, new \in RawPhones :
        LET r == edit_phone(phones, old, new)
        IN  /\ phones' = r.phones
            /\ out' = [op |-> "edit_phone", a |-> old, b |-> new, exc |-> r.exc,
                       msg |-> r.msg, before |-> phones]
            /\ UNCHANGED <<book, order, today, pc, bday>>

NextRecord == AddPhone \/ RemovePhone \/ EditPhone

SpecRecord == InitRecord /\ [][NextRecord]_vars

----------------------------------------------------------------------------
(* Properties of the phone operations *)

\* a string of exactly 10 decimal digits
TenDecimalDigits(s) == Len(s) = 10 /\ \A i \in 1..Len(s) : IsDecimalChar(s[i])

\* C1: editPhone(p, p) for a valid phone p of the record returns without
\* error and leaves the phone set as it was, p still in it.
C1_EditSameIsNoOp ==
    (/\ out.op = "edit_phone"
     /\ out.a = out.b
     /\ TenDecimalDigits(out.a)
     /\ out.a \in out.before)
    => /\ out.exc = "None"
       /\ phones = out.before
       /\ out.a \in phones

\* C7: removePhone(raw) fails with ValidationError when raw is not a
\* well-formed 10-digit number; when raw is well formed and absent it fails
\* with an error that is not ValidationError; when raw is well formed and
\* present it removes exactly that number.
C7_RemovePhoneErrors ==
    out.op = "remove_phone" =>
        /\ ~TenDecimalDigits(out.a) =>
               out.exc = "ValidationError" /\ phones = out.before
        /\ (TenDecimalDigits(out.a) /\ out.a \notin out.before) =>
               out.exc \notin {"None", "ValidationError"} /\ phones = out.before
        /\ (TenDecimalDigits(out.a) /\ out.a \in out.before) =>
               out.exc = "None" /\ phones = out.before \ {out.a}

\* C8: a failing addPhone, removePhone or editPhone leaves the phone set as
\* it was; editPhone with old present and new malformed fails with
\* ValidationError and keeps old; editPhone with old absent fails with
\* ValidationError (with the message "Old phone number not found" when old
\* is a well-formed number) and does not insert new.
C8_FailedCallChangesNothing ==
    /\ out.exc # "None" => phones = out.before
    /\ (/\ out.op = "edit_phone"
        /\ out.a \in out.before
        /\ ~TenDecimalDigits(out.b))
       => /\ out.exc = "ValidationError"
          /\ out.a \in phones
    /\ (out.op = "edit_phone" /\ out.a \notin out.before)
       => /\ out.exc = "ValidationError"
          /\ TenDecimalDigits(out.a) => out.msg = "Old phone number not found"
          /\ phones = out.before

\* C9: every element of the phone set is a string of exactly 10 decimal
\* digits, and adding a digit string already present does not change the set.
C9_PhonesAreTenDecimalDigits ==
    /\ \A p \in phones : TenDecimalDigits(p)
    /\ (out.op = "add_phone" /\ out.a \in out.before) => phones = out.before

\* Apart from the digits that are not decimal, the phone operations do what
\* the error-handling statements say: the statements above restricted to
\* arguments free of such characters.
NoOddDigit(s) == \A i \in 1..Len(s) : IsDigitChar(s[i]) => IsDecimalChar(s[i])

RemovePhoneErrorsOnPlainInput ==
    NoOddDigit(out.a) => C7_RemovePhoneErrors

FailedCallChangesNothingOnPlainInput ==
    (NoOddDigit(out.a) /\ NoOddDigit(out.b)) => C8_FailedCallChangesNothing

----------------------------------------------------------------------------
(* Birthday.__init__: datetime.strptime(value, "%d.%m.%Y").date() *)

RECURSIVE DecimalValue(_)
DecimalValue(s) ==
    IF Len(s) = 0 THEN 0
    ELSE 10 * DecimalValue(SubSeq(s, 1, Len(s) - 1)) + DigitVal(s[Len(s)])

AllDecimal(s) == \A i \in 1..Len(s) : IsDecimalChar(s[i])

\* %d and %m take one or two decimal digits, %Y exactly four; nothing may
\* precede, separate or follow the three fields but the two dots
strptime(value) ==
    LET dots == {i \in 1..Len(value) : value[i] = "."}
        p1 == CHOOSE i \in dots : \A j \in dots : i <= j
        p2 == CHOOSE i \in dots : \A j \in dots : j <= i
        dd == SubSeq(value, 1, p1 - 1)
        mm == SubSeq(value, p1 + 1, p2 - 1)
        yy == SubSeq(value, p2 + 1, Len(value))
    IN  IF /\ Cardinality(dots) = 2
           /\ Len(dd) \in {1, 2} /\ AllDecimal(dd)
           /\ Len(mm) \in {1, 2} /\ AllDecimal(mm)
           /\ Len(yy) = 4 /\ AllDecimal(yy)
           /\ DecimalValue(dd) \in 1..31
           /\ DecimalValue(mm) \in 1..12
           /\ ValidDate(DecimalValue(yy), DecimalValue(mm), DecimalValue(dd))
        THEN [exc |-> "None",
              val |-> MkDate(DecimalValue(yy), DecimalValue(mm), DecimalValue(dd))]
        ELSE [exc |-> "ValueError", val |-> NoDate]

\* Birthday.__init__: a ValueError of strptime becomes a ValidationError
Birthday(value) ==
    LET r == strptime(value)
    IN  IF r.exc = "ValueError"
        THEN [exc |-> "ValidationError", msg |-> "Invalid date format. Use DD.MM.YYYY",
              val |-> NoDate]
        ELSE [exc |-> "None", msg |-> "", val |-> r.val]

----------------------------------------------------------------------------
(* Name, Record and AddressBook *)

\* Name.__init__
Name(value) ==
    IF value = ""
    THEN [exc |-> "ValidationError", msg |-> "Invalid name"]
    ELSE [exc |-> "None", msg |-> ""]

\* Record.__init__: no phones, birthday None (written NoDate)
Record == [phones |-> {}, birthday |-> NoDate]

EmptyBook == [n \in {} |-> Record]

\* AddressBook.add_record: self.data[name] = record; a new key goes last
add_record(data, name, record) ==
    [n \in DOMAIN data \cup {name} |-> IF n = name THEN record ELSE data[n]]

KeysAfterAdd(keys, name) ==
    IF \E i \in 1..Len(keys) : keys[i] = name THEN keys ELSE Append(keys, name)

\* AddressBook.delete
delete(data, name) ==
    IF name \in DOMAIN data
    THEN [n \in DOMAIN data \ {name} |-> data[n]]
    ELSE data

KeysAfterDelete(keys, name) == SelectSeq(keys, LAMBDA k : k # name)

\* the loop of AddressBook.get_upcoming_birthdays over the records from
\* position i on, in insertion order; an exception of the scheduling function
\* leaves the loop
RECURSIVE UpcomingFrom(_, _, _, _, _)
UpcomingFrom(data, keys, i, now, days_ahead) ==
    IF i > Len(keys) THEN [exc |-> "None", val |-> <<>>]
    ELSE LET record == data[keys[i]]
             rest == UpcomingFrom(data, keys, i + 1, now, days_ahead)
         IN  IF record.birthday = NoDate THEN rest
             ELSE LET c == next_congritulation_date(record.birthday, now)
                  IN  IF c.exc # "None" THEN [exc |-> c.exc, val |-> <<>>]
                      ELSE IF rest.exc # "None" THEN rest
                      ELSE IF /\ 0 <= DaysBetween(c.val, now)
                              /\ DaysBetween(c.val, now) < days_ahead
                      THEN [exc |-> "None",
                            val |-> <<[name |-> keys[i],
                                       congratulation_day |-> c.val]>> \o rest.val]
                      ELSE rest

\* AddressBook.get_upcoming_birthdays; the date it reads and the date the
\* scheduling function reads for each record are the same day, now
get_upcoming_birthdays(data, keys, now, days_ahead) ==
    UpcomingFrom(data, keys, 1, now, days_ahead)

----------------------------------------------------------------------------
(* The scheduling function on its own: SpecSched *)

Years == 2024..(2023 + NumYears)

AllDays == {dt \in [y : Years, m : 1..12, d : 1..31] : ValidDate(dt.y, dt.m, dt.d)}

\* every day of the leap year 2000 as a date of birth
Birthdays ==
    {dt \in [y : {2000}, m : 1..12, d : 1..31] : ValidDate(dt.y, dt.m, dt.d)}

NoOut == [op |-> "none", exc |-> "None", val |-> NoDate]

InitSched ==
    /\ today \in AllDays
    /\ bday \in Birthdays
    /\ out = NoOut
    /\ book = <<>>
    /\ order = <<>>
    /\ pc = "read"
    /\ phones = {}

Schedule ==
    /\ out.op = "none"
    /\ LET r == next_congritulation_date(bday, today)
       IN  out' = [op |-> "schedule", exc |-> r.exc, val |-> r.val]
    /\ UNCHANGED <<book, order, today, pc, phones, bday>>

NextSched == Schedule

SpecSched == InitSched /\ [][NextSched]_vars

----------------------------------------------------------------------------
(* Properties of the scheduling function *)

\* 2024-01-01 was a Monday: the day of the week counted from it
DayOfWeek(dt) == DaysBetween(dt, MkDate(2024, 1, 1)) % 7

Saturday == DayOfWeek(MkDate(2024, 1, 6))

Sunday == DayOfWeek(MkDate(2024, 1, 7))

ShiftedOffWeekend(dt) ==
    AddDays(dt, IF DayOfWeek(dt) = Saturday THEN 2
                ELSE IF DayOfWeek(dt) = Sunday THEN 1 ELSE 0)

\* the day a Feb 29 birthday is observed in year y
Feb29Observed(y) == IF is_leap_year(y) THEN MkDate(y, 2, 29) ELSE MkDate(y, 2, 28)

\* C2: for a Feb 29 birthday the scheduling function never fails, and its
\* result is the weekend shift of Feb 29 of the target year when that year
\* is a leap year and of Feb 28 of the target year otherwise, the target
\* year being today's year unless the observed day is already past.
C2_Feb29AlwaysScheduled ==
    (out.op = "schedule" /\ is_29th_february(bday)) =>
        /\ out.exc = "None"
        /\ out.val = ShiftedOffWeekend(
               IF DateLT(Feb29Observed(today.y), today)
               THEN Feb29Observed(today.y + 1)
               ELSE Feb29Observed(today.y))

\* C3: for a birthday that is not Feb 29 the date before the weekend shift
\* is its month and day in today's year when that is not before today and in
\* the next year otherwise; the result is that date moved 2 days forward from
\* a Saturday, 1 day from a Sunday and left alone otherwise.
C3_PlainBirthdayScheduled ==
    (out.op = "schedule" /\ ~is_29th_february(bday)) =>
        /\ out.exc = "None"
        /\ out.val = ShiftedOffWeekend(
               IF DateLT(MkDate(today.y, bday.m, bday.d), today)
               THEN MkDate(today.y + 1, bday.m, bday.d)
               ELSE MkDate(today.y, bday.m, bday.d))

\* a 15 March birthday scheduled on 2024-03-20 is based on 2025-03-15, a
\* Saturday, and so observed on Monday 2025-03-17
C3_Witness ==
    /\ out.op = "schedule"
    /\ bday.m = 3 /\ bday.d = 15
    /\ today = MkDate(2024, 3, 20)
    /\ out.val = MkDate(2025, 3, 17)

\* C4: a returned celebration date is a weekday and not earlier than today;
\* the weekend shift comes last, so for a Feb 29 birthday observed in a common
\* year whose Feb 28 is a Saturday or Sunday the result lies in March.
C4_WeekdayNotBeforeToday ==
    (out.op = "schedule" /\ out.exc = "None") =>
        /\ DayOfWeek(out.val) \notin {Saturday, Sunday}
        /\ ~DateLT(out.val, today)
        /\ (/\ is_29th_february(bday)
            /\ ~is_leap_year(out.val.y)
            /\ DayOfWeek(MkDate(out.val.y, 2, 28)) \in {Saturday, Sunday})
           => out.val.m = 3

\* a Feb 29 birthday whose substituted Feb 28 fell on a Sunday, observed on
\* Monday 1 March
C4_Witness ==
    /\ out.op = "schedule" /\ out.exc = "None"
    /\ is_29th_february(bday)
    /\ ~is_leap_year(out.val.y)
    /\ DayOfWeek(MkDate(out.val.y, 2, 28)) = Sunday
    /\ out.val.m = 3 /\ out.val.d = 1

----------------------------------------------------------------------------
(* The address book and its upcoming-birthdays query: SpecBook *)

Names == {"al", "bo"}

BirthdayFeb29 == <<"2", "9", ".", "0", "2", ".", "2", "0", "0", "0">>

BirthdayMar1 == <<"0", "1", ".", "0", "3", ".", "1", "9", "9", "0">>

BirthdayMar2 == <<"2", ".", "3", ".", "1", "9", "8", "5">>

BirthdayMar7 == <<"0", "7", ".", "0", "3", ".", "1", "9", "9", "0">>

BirthdayFeb27 == <<"2", "7", ".", "0", "2", ".", "1", "9", "9", "0">>

BirthdayApr31 == <<"3", "1", ".", "0", "4", ".", "2", "0", "0", "0">>

BirthdayShortYear == <<"0", "1", ".", "0", "3", ".", "9", "0">>

BirthdayJunk == <<"a", ".", "sup2">>

RawBirthdays ==
    {BirthdayFeb29, BirthdayMar1, BirthdayMar2, BirthdayMar7, BirthdayFeb27,
     BirthdayApr31, BirthdayShortYear, BirthdayJunk}

\* the clock starts on the eve of 2024-02-29 and passes at most MaxTicks
\* midnights
ClockStart == MkDate(2024, 2, 28)

ClockMayTick == DaysBetween(today, ClockStart) < MaxTicks

BookOut(op, name, days, exc, val) ==
    [op |-> op, name |-> name, days |-> days, exc |-> exc, val |-> val]

InitBook ==
    /\ book = EmptyBook
    /\ order = <<>>
    /\ today = ClockStart
    /\ out = BookOut("AddressBook", "", 0, "None", <<>>)
    /\ pc = "read"
    /\ phones = {}
    /\ bday = NoDate

\* book.add_record(Record(name))
BookAddRecord ==
    \E name \in Names \cup {""} :
        /\ IF Name(name).exc # "None"
           THEN /\ UNCHANGED <<book, order>>
                /\ out' = BookOut("add_record", name, 0, Name(name).exc, <<>>)
           ELSE /\ book' = add_record(book, name, Record)
                /\ order' = KeysAfterAdd(order, name)
                /\ out' = BookOut("add_record", name, 0, "None", <<>>)
        /\ UNCHANGED <<today, pc, phones, bday>>

\* book.delete(name)
BookDelete ==
    \E name \in Names :
        /\ book' = delete(book, name)
        /\ order' = KeysAfterDelete(order, name)
        /\ out' = BookOut("delete", name, 0, "None", <<>>)
        /\ UNCHANGED <<today, pc, phones, bday>>

\* book.find(name).add_birthday(raw)
BookAddBirthday ==
    \E name \in DOMAIN book, raw \in RawBirthdays :
        LET b == Birthday(raw)
        IN  /\ IF b.exc # "None"
               THEN book' = book
               ELSE book' = [book EXCEPT ![name].birthday = b.val]
            /\ out' = BookOut("add_birthday", name, 0, b.exc, <<>>)
            /\ UNCHANGED <<order, today, pc, phones, bday>>

\* book.get_upcoming_birthdays(days_ahead)
BookUpcoming ==
    \E days_ahead \in 0..MaxDaysAhead :
        LET r == get_upcoming_birthdays(book, order, today, days_ahead)
        IN  /\ out' = BookOut("get_upcoming_birthdays", "", days_ahead, r.exc, r.val)
            /\ UNCHANGED <<book, order, today, pc, phones, bday>>

BookMidnight ==
    /\ ClockMayTick
    /\ today' = NextDay(today)
    /\ out' = BookOut("midnight", "", 0, "None", <<>>)
    /\ UNCHANGED <<book, order, pc, phones, bday>>

NextBook ==
    BookAddRecord \/ BookDelete \/ BookAddBirthday \/ BookUpcoming \/ BookMidnight

SpecBook == InitBook /\ [][NextBook]_vars

----------------------------------------------------------------------------
(* Properties of the upcoming-birthdays query *)

\* the records that are due: a birthday is set and its celebration date lies
\* 0 <= days < days_ahead after today
Due(days_ahead) ==
    {n \in DOMAIN book :
        /\ book[n].birthday # NoDate
        /\ LET c == next_congritulation_date(book[n].birthday, today)
           IN  /\ c.exc = "None"
               /\ 0 <= DaysBetween(c.val, today)
               /\ DaysBetween(c.val, today) < days_ahead}

\* C5: upcomingBirthdays(daysAhead) returns exactly the records that have a
\* birthday whose celebration date d satisfies 0 <= d - today < daysAhead.
C5_UpcomingIsExactlyTheWindow ==
    out.op = "get_upcoming_birthdays" =>
        /\ out.exc = "None"
        /\ {out.val[i].name : i \in 1..Len(out.val)} = Due(out.days)
        /\ \A i \in 1..Len(out.val) :
               out.val[i].congratulation_day =
                   next_congritulation_date(book[out.val[i].name].birthday, today).val

\* whenever the query returns, it returns exactly the records that are due
UpcomingIsTheWindowWhenItReturns ==
    (out.op = "get_upcoming_birthdays" /\ out.exc = "None") =>
        /\ {out.val[i].name : i \in 1..Len(out.val)} = Due(out.days)
        /\ Len(out.val) = Cardinality(Due(out.days))

\* a celebration 0 days out is returned, one exactly days_ahead out is not
UpcomingBoundaryReached ==
    /\ out.op = "get_upcoming_birthdays" /\ out.exc = "None"
    /\ out.days = DefaultDaysAhead
    /\ \E n \in Due(out.days) :
           next_congritulation_date(book[n].birthday, today).val = today
    /\ \E n \in DOMAIN book \ Due(out.days) :
           /\ book[n].birthday # NoDate
           /\ DaysBetween(next_congritulation_date(book[n].birthday, today).val, today)
                  = out.days

----------------------------------------------------------------------------
(* The command handlers (src/handlers.py) *)

\* what a handler did: exc and msg are the exception it raised ("None" when
\* it returned ret), data and keys the address book it leaves behind
Handled(exc, msg, ret, data, keys) ==
    [exc |-> exc, msg |-> msg, ret |-> ret, data |-> data, keys |-> keys]

handle_hello(data, keys) == Handled("None", "", "How can I help you?", data, keys)

\* handle_exit: sys.exit(0) raises SystemExit
handle_exit(data, keys) == Handled("SystemExit", "", "", data, keys)

handle_help(data, keys) == Handled("None", "", "Available commands: ...", data, keys)

\* handle_add: a missing record is created and stored before the phone is
\* validated
handle_add(data, keys, name, phone) ==
    LET found == name \in DOMAIN data
        named == Name(name)
        data1 == IF found THEN data ELSE add_record(data, name, Record)
        keys1 == IF found THEN keys ELSE KeysAfterAdd(keys, name)
        message == IF found THEN "Contact updated." ELSE "Contact added."
    IN  IF ~found /\ named.exc # "None"
        THEN Handled(named.exc, named.msg, "", data, keys)
        ELSE IF phone # <<>>
        THEN LET r == add_phone(data1[name].phones, phone)
             IN  IF r.exc # "None" THEN Handled(r.exc, r.msg, "", data1, keys1)
                 ELSE Handled("None", "", message,
                              [data1 EXCEPT ![name].phones = r.phones], keys1)
        ELSE Handled("None", "", message, data1, keys1)

handle_change(data, keys, name, old_phone, new_phone) ==
    IF name \notin DOMAIN data
    THEN Handled("None", "", "Contact not found.", data, keys)
    ELSE LET r == edit_phone(data[name].phones, old_phone, new_phone)
         IN  IF r.exc # "None" THEN Handled(r.exc, r.msg, "", data, keys)
             ELSE Handled("None", "", "Contact updated.",
                          [data EXCEPT ![name].phones = r.phones], keys)

handle_phone(data, keys, name) ==
    IF name \notin DOMAIN data
    THEN Handled("None", "", "Contact not found.", data, keys)
    ELSE Handled("None", "", "<name>: <phones>", data, keys)

handle_all(data, keys) ==
    IF DOMAIN data = {}
    THEN Handled("None", "", "No contacts found.", data, keys)
    ELSE Handled("None", "", "<name>: <phones> ...", data, keys)

handle_add_birthday(data, keys, name, birthday) ==
    IF name \notin DOMAIN data
    THEN Handled("None", "", "Contact not found.", data, keys)
    ELSE LET b == Birthday(birthday)
         IN  IF b.exc # "None" THEN Handled(b.exc, b.msg, "", data, keys)
             ELSE Handled("None", "", "Birthday added.",
                          [data EXCEPT ![name].birthday = b.val], keys)

handle_show_birthday(data, keys, name) ==
    IF name \notin DOMAIN data
    THEN Handled("None", "", "Contact not found.", data, keys)
    ELSE IF data[name].birthday = NoDate
    THEN Handled("None", "", "Birthday not set.", data, keys)
    ELSE Handled("None", "", "<name>'s birthday is <birthday>.", data, keys)

handle_upcoming_birthdays(data, keys, now) ==
    LET upcoming == get_upcoming_birthdays(data, keys, now, DefaultDaysAhead)
    IN  IF upcoming.exc # "None" THEN Handled(upcoming.exc, "", "", data, keys)
        ELSE IF upcoming.val = <<>>
        THEN Handled("None", "", "No upcoming birthdays.", data, keys)
        ELSE Handled("None", "", "<name>: <congratulation_day> ...", data, keys)

\* a plausible slip: the decorator has no clause for ValueError
input_error_without_ValueError(h) ==
    IF h.exc = "None" THEN [exc |-> "None", ret |-> h.ret]
    ELSE IF h.exc = "TypeError"
    THEN [exc |-> "None", ret |-> "Invalid number of parameters."]
    ELSE IF h.exc = "KeyError" THEN [exc |-> "None", ret |-> "Contact not found."]
    ELSE IF h.exc = "ValidationError" THEN [exc |-> "None", ret |-> h.msg]
    ELSE [exc |-> h.exc, ret |-> ""]

\* input_error: the wrapper turns four exception classes into messages and
\* lets every other exception through
input_error(h) ==
    IF h.exc = "None" THEN [exc |-> "None", ret |-> h.ret]
    ELSE IF h.exc = "TypeError"
    THEN [exc |-> "None", ret |-> "Invalid number of parameters."]
    ELSE IF h.exc = "KeyError" THEN [exc |-> "None", ret |-> "Contact not found."]
    ELSE IF h.exc = "ValueError"
    THEN [exc |-> "None", ret |-> "Invalid input. Please enter the correct data."]
    ELSE IF h.exc = "ValidationError" THEN [exc |-> "None", ret |-> h.msg]
    ELSE [exc |-> h.exc, ret |-> ""]

\* the commands table, with the number of parameters each handler takes
\* after the book
Commands ==
    {"hello", "help", "close", "exit", "add", "change", "phone", "all",
     "add-birthday", "show-birthday", "birthdays"}

Arity(command) ==
    CASE command \in {"hello", "help", "close", "exit", "all", "birthdays"} -> 0
      [] command \in {"phone", "show-birthday"} -> 1
      [] command \in {"add", "add-birthday"} -> 2
      [] command = "change" -> 3

----------------------------------------------------------------------------
(* The command loop (src/main.py): Spec *)

LoopPhones == {Phone1, Phone2, PhoneShort}

LoopBirthdays == {BirthdayFeb29, BirthdayMar1, BirthdayJunk}

Line(command, nargs, msg) == [cmd |-> command, nargs |-> nargs, msg |-> msg]

Init ==
    /\ book = EmptyBook
    /\ order = <<>>
    /\ today = ClockStart
    /\ pc = "read"
    /\ out = Line("<start>", 0, "Welcome to the assistant bot!")
    /\ phones = {}
    /\ bday = NoDate

\* print('-', func(book, *args)): the handler runs inside its wrapper; an
\* exception the wrapper lets through ends main()
Dispatch(command, nargs, h) ==
    LET w == input_error(h)
    IN  /\ book' = h.data
        /\ order' = h.keys
        /\ IF w.exc = "None"
           THEN pc' = "read" /\ out' = Line(command, nargs, w.ret)
           ELSE IF w.exc = "SystemExit"
           THEN pc' = "exited" /\ out' = Line(command, nargs, "Goodbye!")
           ELSE pc' = "crashed" /\ out' = Line(command, nargs, "Traceback")
        /\ UNCHANGED <<today, phones, bday>>

\* input() raises KeyboardInterrupt or EOFError
ReadEndOfInput ==
    /\ pc = "read"
    /\ pc' = "exited"
    /\ out' = Line("<eof>", 0, "Goodbye!")
    /\ UNCHANGED <<book, order, today, phones, bday>>

\* a line with no tokens
ReadEmptyLine ==
    /\ pc = "read"
    /\ out' = Line("", 0, "No command entered.")
    /\ UNCHANGED <<book, order, today, pc, phones, bday>>

\* a first token that is no key of the commands table
ReadUnknownCommand ==
    /\ pc = "read"
    /\ \E nargs \in 0..MaxArgs : out' = Line("bogus", nargs, "Invalid command.")
    /\ UNCHANGED <<book, order, today, pc, phones, bday>>

\* a known command with the wrong number of arguments: the call raises
\* TypeError inside the wrapper
ReadWrongArity ==
    /\ pc = "read"
    /\ \E command \in Commands, nargs \in 0..MaxArgs :
           /\ nargs # Arity(command)
           /\ Dispatch(command, nargs, Handled("TypeError", "", "", book, order))

ReadHello == pc = "read" /\ Dispatch("hello", 0, handle_hello(book, order))

ReadHelp == pc = "read" /\ Dispatch("help", 0, handle_help(book, order))

ReadExit ==
    /\ pc = "read"
    /\ \E command \in {"close", "exit"} : Dispatch(command, 0, handle_exit(book, order))

ReadAdd ==
    /\ pc = "read"
    /\ \E name \in Names, phone \in LoopPhones :
           Dispatch("add", 2, handle_add(book, order, name, phone))

ReadChange ==
    /\ pc = "read"
    /\ \E name \in Names, old_phone \in LoopPhones, new_phone \in LoopPhones :
           Dispatch("change", 3, handle_change(book, order, name, old_phone, new_phone))

ReadPhone ==
    /\ pc = "read"
    /\ \E name \in Names : Dispatch("phone", 1, handle_phone(book, order, name))

ReadAll == pc = "read" /\ Dispatch("all", 0, handle_all(book, order))

ReadAddBirthday ==
    /\ pc = "read"
    /\ \E name \in Names, birthday \in LoopBirthdays :
           Dispatch("add-birthday", 2, handle_add_birthday(book, order, name, birthday))

ReadShowBirthday ==
    /\ pc = "read"
    /\ \E name \in Names :
           Dispatch("show-birthday", 1, handle_show_birthday(book, order, name))

ReadBirthdays ==
    pc = "read" /\ Dispatch("birthdays", 0, handle_upcoming_birthdays(book, order, today))

\* the date changes while main() waits for input
Midnight ==
    /\ pc = "read"
    /\ ClockMayTick
    /\ today' = NextDay(today)
    /\ UNCHANGED <<book, order, pc, out, phones, bday>>

Next ==
    \/ ReadEndOfInput
    \/ ReadEmptyLine
    \/ ReadUnknownCommand
    \/ ReadWrongArity
    \/ ReadHello
    \/ ReadHelp
    \/ ReadExit
    \/ ReadAdd
    \/ ReadChange
    \/ ReadPhone
    \/ ReadAll
    \/ ReadAddBirthday
    \/ ReadShowBirthday
    \/ ReadBirthdays
    \/ Midnight

Spec == Init /\ [][Next]_vars

----------------------------------------------------------------------------
(* Properties of the command loop *)

\* C6: whatever the line, the loop prints a diagnostic or a result and goes
\* on reading; main() ends only on exit/close or on end of input or an
\* interrupt, never because an exception left a handler.
C6_LoopNeverCrashes ==
    /\ pc \in {"read", "exited"}
    /\ out.msg # "Traceback"
    /\ pc = "exited" =>
           \/ out.cmd \in {"exit", "close"} /\ out.nargs = 0
           \/ out.cmd = "<eof>"

\* the ValueError of the scheduling function, raised under the birthdays
\* command, was turned into a diagnostic and the loop reads on
C6_Witness ==
    /\ pc = "read"
    /\ out.cmd = "birthdays"
    /\ out.msg = "Invalid input. Please enter the correct data."

\* C10: an add command that ends in the validation error of the phone leaves
\* the directory as it was.
C10_FailedAddChangesNothing ==
    [][(out'.cmd = "add" /\ out'.msg = "Invalid phone number") => book' = book]_vars

====
